---- MODULE Spec2Model ----
(***************************************************************************)
(* optrack: import of a brokerage CSV export into a document store and     *)
(* reconstruction of option legs from it (src/optrack/options.py).         *)
(*                                                                         *)
(* Representation of the Python values:                                    *)
(*   Decimal        an integer (prices in cents, quantities in units)      *)
(*   Optional[x]    [some |-> BOOLEAN, val |-> x]                          *)
(*   datetime       seconds since midnight of day 0                        *)
(*   a text that the code parses as a number                               *)
(*                  [form, val, word]: form "digits" is an unsigned        *)
(*                  integer text ("5": str.isnumeric and Decimal accept    *)
(*                  it), "decimal" any other text Decimal accepts ("-1",   *)
(*                  "21.07"), "empty" the empty text, "word" a text        *)
(*                  Decimal rejects ("None", "abc")                        *)
(*   a price text   [sign, cur, mag]: the optional "-", the "$" marker     *)
(*                  (or nothing) and the text after them                   *)
(*   a date text    [form, asof, day, padded, word]                        *)
(*   a symbol       the sequence of its space-separated tokens             *)
(*   a call         [exc, val]: exc = "none" and the value returned, or    *)
(*                  the name of the exception raised                       *)
(***************************************************************************)
EXTENDS Integers, Sequences, FiniteSets, TLC

VARIABLES
    store,      \* client["optrack"]["transactions"]: documents, insertion order
    clock,      \* the next value datetime.utcnow() returns
    runs,       \* number of runs of main so far
    file,       \* cfg.input.file of the last import: the rows of the file
    csv,        \* what load_csv returned in the last import
    imported,   \* history: the files imported so far without a failure
    procs,      \* concurrent imports: per process its lines and loop position
    leg,        \* a Leg under evaluation
    legOut,     \* the results of the Leg's methods
    scan,       \* get_positions: its filter, cursor, locals and result
    last        \* the result of the call of get_positions before this one

vars == <<store, clock, runs, file, csv, imported, procs, leg, legOut, scan, last>>

-----------------------------------------------------------------------------
(* Bounds *)

\* runs of main in one behaviour
MaxRuns == 2
\* rows of a file given to load_csv alone
MaxRows == 3
\* records of one concurrent import
MaxConcLines == 2
\* lines of a Leg
MaxLines == 2
\* rows of the file imported before get_positions is called
MaxListRows == 3

-----------------------------------------------------------------------------
(* Values *)

SecondsPerDay == 24 * 60 * 60

Ok(v) == [exc |-> "none", val |-> v]
Raise(e, v) == [exc |-> e, val |-> v]

None == [some |-> FALSE, val |-> 0]
Some(v) == [some |-> TRUE, val |-> v]

\* a document field that is absent, or present with a text
NoText == [some |-> FALSE, val |-> ""]
SomeText(t) == [some |-> TRUE, val |-> t]

EmptyText == [form |-> "empty", val |-> 0, word |-> ""]
Digits(n) == [form |-> "digits", val |-> n, word |-> ""]
DecimalText(n) == [form |-> "decimal", val |-> n, word |-> ""]
Word(w) == [form |-> "word", val |-> 0, word |-> w]

\* str.isnumeric
IsNumeric(t) == t.form = "digits"

\* len(s) for a number text, as far as the code asks: zero or not
IsEmptyText(t) == t.form = "empty"

\* Decimal(s): decimal.InvalidOperation (an ArithmeticError) on any text that
\* is no number, the empty text included
Decimal(t) ==
    IF t.form \in {"digits", "decimal"} THEN Ok(t.val)
    ELSE Raise("InvalidOperation", 0)

\* f"{x}" of a Decimal
DecimalStr(v) == IF v >= 0 THEN Digits(v) ELSE DecimalText(v)

\* f"{x}" of an Optional[Decimal]: str(None) is "None"
OptionalStr(q) == IF q.some THEN DecimalStr(q.val) ELSE Word("None")

EmptyPrice == [sign |-> "", cur |-> "", mag |-> EmptyText]
Dollar(v) == [sign |-> "", cur |-> "$", mag |-> DecimalText(v)]
MinusDollar(v) == [sign |-> "-", cur |-> "$", mag |-> DecimalText(v)]

PriceIsNumeric(s) == s.sign = "" /\ s.cur = "" /\ IsNumeric(s.mag)

parse_price(s) ==
    IF s = EmptyPrice THEN Ok(0)
    ELSE IF s.cur = "" /\ IsEmptyText(s.mag) THEN Raise("IndexError", 0)
    ELSE IF s.cur # "$" THEN Raise("AssertionError", 0)
    ELSE LET d == Decimal(s.mag)
             sign == IF s.sign = "-" THEN -1 ELSE 1
         IN  IF d.exc # "none" THEN d ELSE Ok(d.val * sign)

format_price(p) ==
    LET neg == p < 0
        q == IF neg THEN p * (-1) ELSE p
    IN  [sign |-> IF neg THEN "-" ELSE "", cur |-> "$", mag |-> DecimalStr(q)]

DateText(day, padded) ==
    [form |-> "date", asof |-> FALSE, day |-> day, padded |-> padded, word |-> ""]
AsOfText(day, padded) ==
    [form |-> "date", asof |-> TRUE, day |-> day, padded |-> padded, word |-> ""]
DateWord(w) ==
    [form |-> "word", asof |-> FALSE, day |-> 0, padded |-> FALSE, word |-> w]

\* datetime.strptime(s, "%m/%d/%Y"): midnight of the day; accepts "3/7/2022"
strptime(s) ==
    IF s.form = "date" /\ ~s.asof THEN Ok(s.day * SecondsPerDay)
    ELSE Raise("ValueError", 0)

\* d.strftime("%m/%d/%Y"): always zero-padded
strftime(d) == DateText(d \div SecondsPerDay, TRUE)

\* datetime.date()
DayOf(d) == d \div SecondsPerDay

-----------------------------------------------------------------------------
(* Action *)

ActionNames ==
    [ x \in {"Buy to Open"} |-> "BUY_TO_OPEN" ] @@
    [ x \in {"Buy to Close"} |-> "BUY_TO_CLOSE" ] @@
    [ x \in {"Sell to Open"} |-> "SELL_TO_OPEN" ] @@
    [ x \in {"Sell to Close"} |-> "SELL_TO_CLOSE" ] @@
    [ x \in {"Buy"} |-> "BUY" ] @@
    [ x \in {"Sell"} |-> "SELL" ] @@
    [ x \in {"Journaled Shares"} |-> "JOURNALED_SHARES" ] @@
    [ x \in {"NRA Tax Adj"} |-> "NRA_TAX_ADJ" ] @@
    [ x \in {"Qualified Dividend"} |-> "QUALIFIED_DIVIDEND" ] @@
    [ x \in {"Non-Qualified Div"} |-> "NON_QUALIFIED_DIV" ] @@
    [ x \in {"Reinvest Shares"} |-> "REINVEST_SHARES" ] @@
    [ x \in {"Qual Div Reinvest"} |-> "QUAL_DIV_REINVEST" ] @@
    [ x \in {"Journal"} |-> "JOURNAL" ] @@
    [ x \in {"Credit Interest"} |-> "CREDIT_INTEREST" ] @@
    [ x \in {"Wire Funds"} |-> "WIRE_FUNDS" ] @@
    [ x \in {"Misc Cash Entry"} |-> "MISC_CASH_ENTRY" ] @@
    [ x \in {"Service Fee"} |-> "SERVICE_FEE" ] @@
    [ x \in {"MoneyLink Deposit"} |-> "MONEYLINK_DEPOSIT" ] @@
    [ x \in {"MoneyLink Transfer"} |-> "MONEYLINK_TRANSFER" ] @@
    [ x \in {"MoneyLink Adj"} |-> "MONEYLINK_ADJ" ] @@
    [ x \in {"Stock Plan Activity"} |-> "STOCK_PLAN_ACTIVITY" ] @@
    [ x \in {"Foreign Tax Paid"} |-> "FOREIGN_TAX_PAID" ] @@
    [ x \in {"Expired"} |-> "EXPIRED" ] @@
    [ x \in {"Mandatory Reorg Exc"} |-> "MANDATORY_REORG_EXC" ] @@
    [ x \in {"Spin-off"} |-> "SPIN_OFF" ] @@
    [ x \in {"Funds Received"} |-> "FUNDS_RECEIVED" ] @@
    [ x \in {"Cash Dividend"} |-> "CASH_DIVIDEND" ] @@
    [ x \in {"Cash In Lieu"} |-> "CASH_IN_LIEU" ] @@
    [ x \in {"Reinvest Dividend"} |-> "REINVEST_DIVIDEND" ] @@
    [ x \in {"Stock Split"} |-> "STOCK_SPLIT" ] @@
    [ x \in {"Cash/Stock Merger"} |-> "CASH_STOCK_MERGER" ]

\* Action.<NAME>.value (STOCK_SPLIT and CASH_STOCK_MERGER are the tuples (29,)
\* and (30,): written 29 and 30, distinct from every other value as they are)
ActionValue ==
    [ x \in {"BUY_TO_OPEN"} |-> 0 ] @@
    [ x \in {"BUY_TO_CLOSE"} |-> 1 ] @@
    [ x \in {"SELL_TO_CLOSE"} |-> 2 ] @@
    [ x \in {"SELL_TO_OPEN"} |-> 3 ] @@
    [ x \in {"BUY"} |-> 4 ] @@
    [ x \in {"SELL"} |-> 5 ] @@
    [ x \in {"JOURNALED_SHARES"} |-> 6 ] @@
    [ x \in {"JOURNAL"} |-> 7 ] @@
    [ x \in {"NRA_TAX_ADJ"} |-> 8 ] @@
    [ x \in {"CASH_DIVIDEND"} |-> 9 ] @@
    [ x \in {"QUALIFIED_DIVIDEND"} |-> 10 ] @@
    [ x \in {"NON_QUALIFIED_DIV"} |-> 11 ] @@
    [ x \in {"CREDIT_INTEREST"} |-> 12 ] @@
    [ x \in {"WIRE_FUNDS"} |-> 13 ] @@
    [ x \in {"MISC_CASH_ENTRY"} |-> 14 ] @@
    [ x \in {"SERVICE_FEE"} |-> 15 ] @@
    [ x \in {"MONEYLINK_TRANSFER"} |-> 16 ] @@
    [ x \in {"MONEYLINK_DEPOSIT"} |-> 17 ] @@
    [ x \in {"MONEYLINK_ADJ"} |-> 18 ] @@
    [ x \in {"STOCK_PLAN_ACTIVITY"} |-> 19 ] @@
    [ x \in {"REINVEST_SHARES"} |-> 20 ] @@
    [ x \in {"QUAL_DIV_REINVEST"} |-> 21 ] @@
    [ x \in {"REINVEST_DIVIDEND"} |-> 22 ] @@
    [ x \in {"FOREIGN_TAX_PAID"} |-> 23 ] @@
    [ x \in {"EXPIRED"} |-> 24 ] @@
    [ x \in {"MANDATORY_REORG_EXC"} |-> 25 ] @@
    [ x \in {"SPIN_OFF"} |-> 26 ] @@
    [ x \in {"FUNDS_RECEIVED"} |-> 27 ] @@
    [ x \in {"CASH_IN_LIEU"} |-> 28 ] @@
    [ x \in {"STOCK_SPLIT"} |-> 29 ] @@
    [ x \in {"CASH_STOCK_MERGER"} |-> 30 ]

\* a look-up whose KeyError is not turned into a ValueError
from_string_keyerror(s) ==
    IF s \in DOMAIN ActionNames THEN Ok(ActionNames[s])
    ELSE Raise("KeyError", "")

\* Action.from_string
from_string(s) ==
    IF s \in DOMAIN ActionNames THEN Ok(ActionNames[s])
    ELSE Raise("ValueError", "")

-----------------------------------------------------------------------------
(* CSVLine *)

CSVLine(str_date, date, action, symbol, desc, quantity, price, fees, amount) ==
    [str_date |-> str_date, date |-> date, action |-> action, symbol |-> symbol,
     desc |-> desc, quantity |-> quantity, price |-> price, fees |-> fees,
     amount |-> amount]

NoLine == CSVLine(DateWord(""), 0, "", <<>>, "", None, 0, 0, 0)

\* A row of the file as csv.reader yields it: cols fields, of which the
\* first 8 are date, action, symbol, desc, quantity, price, fees, amount.
Row(cols, date, action, symbol, desc, quantity, price, fees, amount) ==
    [cols |-> cols, date |-> date, action |-> action, symbol |-> symbol,
     desc |-> desc, quantity |-> quantity, price |-> price, fees |-> fees,
     amount |-> amount]

\* CSVLine.init_from_str_array, on a row of at least 2 fields. The statements
\* run in the order of the code, so the first failing one decides the exception.
init_from_str_array(line) ==
    LET text == IF line.date.form = "date" /\ line.date.asof
                THEN DateText(line.date.day, line.date.padded)
                ELSE line.date
        date == strptime(text)
        action == from_string(line.action)
        quantity == IF IsEmptyText(line.quantity) THEN Ok(None)
                    ELSE LET d == Decimal(line.quantity)
                         IN  IF d.exc = "none" THEN Ok(Some(d.val))
                             ELSE Raise(d.exc, None)
        price == parse_price(line.price)
        fees == parse_price(line.fees)
        amount == parse_price(line.amount)
    IN  IF date.exc # "none" THEN Raise(date.exc, NoLine)
        ELSE IF action.exc # "none" THEN Raise(action.exc, NoLine)
        ELSE IF line.cols < 8 THEN Raise("IndexError", NoLine)
        ELSE IF quantity.exc # "none" THEN Raise(quantity.exc, NoLine)
        ELSE IF price.exc # "none" THEN Raise(price.exc, NoLine)
        ELSE IF fees.exc # "none" THEN Raise(fees.exc, NoLine)
        ELSE IF amount.exc # "none" THEN Raise(amount.exc, NoLine)
        ELSE Ok(CSVLine(text, date.val, action.val, line.symbol, line.desc,
                        quantity.val, price.val, fees.val, amount.val))

is_option(cl) ==
    cl.action \in {"BUY_TO_OPEN", "BUY_TO_CLOSE", "SELL_TO_OPEN", "SELL_TO_CLOSE"}

\* CSVLine.key: the text date:value##quantity_symbol@price, as the tuple of
\* its parts
key(cl) ==
    <<cl.date, ActionValue[cl.action], OptionalStr(cl.quantity), cl.symbol, cl.price>>

\* CSVLine.init_from_transaction, of a stored document
init_from_transaction(param) ==
    LET quantity == Decimal(param.quantity)
        price == parse_price(param.price)
        fees == parse_price(param.fees)
        amount == parse_price(param.amount)
    IN  IF param.action \notin DOMAIN ActionValue THEN Raise("KeyError", NoLine)
        ELSE IF quantity.exc # "none" THEN Raise(quantity.exc, NoLine)
        ELSE IF price.exc # "none" THEN Raise(price.exc, NoLine)
        ELSE IF fees.exc # "none" THEN Raise(fees.exc, NoLine)
        ELSE IF amount.exc # "none" THEN Raise(amount.exc, NoLine)
        ELSE Ok(CSVLine(strftime(param.date), param.date, param.action,
                        param.symbol, param.desc, Some(quantity.val),
                        price.val, fees.val, amount.val))

-----------------------------------------------------------------------------
(* load_csv *)

\* all(map(lambda l: not str.isnumeric(l), row)) over row[0:8]: the date,
\* action, symbol and desc texts of the model hold letters, "/" or spaces
AllNotNumeric(row) ==
    /\ row.cols >= 5 => ~IsNumeric(row.quantity)
    /\ row.cols >= 6 => ~PriceIsNumeric(row.price)
    /\ row.cols >= 7 => ~PriceIsNumeric(row.fees)
    /\ row.cols >= 8 => ~PriceIsNumeric(row.amount)

\* a reader loop whose header test does not look at the line number
RECURSIVE ReadRowsAnyLine(_, _, _)
ReadRowsAnyLine(rows, lnum, lines) ==
    IF lnum > Len(rows) THEN Ok(lines)
    ELSE LET row == rows[lnum]
         IN  IF row.cols = 0 THEN ReadRowsAnyLine(rows, lnum + 1, lines)
             ELSE IF row.cols = 1 THEN ReadRowsAnyLine(rows, lnum + 1, lines)
             ELSE IF AllNotNumeric(row)
                  THEN ReadRowsAnyLine(rows, lnum + 1, lines)
             ELSE IF row.date = DateWord("Transactions Total")
                  THEN ReadRowsAnyLine(rows, lnum + 1, lines)
             ELSE LET cl == init_from_str_array(row)
                  IN  IF cl.exc = "none"
                      THEN ReadRowsAnyLine(rows, lnum + 1, Append(lines, cl.val))
                      ELSE IF cl.exc = "ValueError"
                      THEN ReadRowsAnyLine(rows, lnum + 1, lines)
                      ELSE Raise(cl.exc, <<>>)

\* a reader loop that logs the AssertionError and goes on to the next row
RECURSIVE ReadRowsSwallow(_, _, _)
ReadRowsSwallow(rows, lnum, lines) ==
    IF lnum > Len(rows) THEN Ok(lines)
    ELSE LET row == rows[lnum]
         IN  IF row.cols = 0 THEN ReadRowsSwallow(rows, lnum + 1, lines)
             ELSE IF row.cols = 1 THEN ReadRowsSwallow(rows, lnum + 1, lines)
             ELSE IF AllNotNumeric(row) /\ lnum < 3
                  THEN ReadRowsSwallow(rows, lnum + 1, lines)
             ELSE IF row.date = DateWord("Transactions Total")
                  THEN ReadRowsSwallow(rows, lnum + 1, lines)
             ELSE LET cl == init_from_str_array(row)
                  IN  IF cl.exc = "none"
                      THEN ReadRowsSwallow(rows, lnum + 1, Append(lines, cl.val))
                      ELSE IF cl.exc \in {"ValueError", "AssertionError"}
                      THEN ReadRowsSwallow(rows, lnum + 1, lines)
                      ELSE Raise(cl.exc, <<>>)

\* the reader loop: rows[lnum..] are still to read, lines is the list so far
RECURSIVE ReadRows(_, _, _)
ReadRows(rows, lnum, lines) ==
    IF lnum > Len(rows) THEN Ok(lines)
    ELSE LET row == rows[lnum]
         IN  IF row.cols = 0 THEN ReadRows(rows, lnum + 1, lines)
             ELSE IF row.cols = 1 THEN ReadRows(rows, lnum + 1, lines)
             ELSE IF AllNotNumeric(row) /\ lnum < 3
                  THEN ReadRows(rows, lnum + 1, lines)
             ELSE IF row.date = DateWord("Transactions Total")
                  THEN ReadRows(rows, lnum + 1, lines)
             ELSE LET cl == init_from_str_array(row)
                  IN  IF cl.exc = "none"
                      THEN ReadRows(rows, lnum + 1, Append(lines, cl.val))
                      ELSE IF cl.exc = "ValueError"
                      THEN ReadRows(rows, lnum + 1, lines)
                      ELSE Raise(cl.exc, <<>>)

\* the calls of logger.error of the reader loop over rows[lnum..]: the line
\* numbers logged, a ValueError being logged before the next row is read and
\* an AssertionError before it is raised again
RECURSIVE LogRows(_, _, _)
LogRows(rows, lnum, log) ==
    IF lnum > Len(rows) THEN log
    ELSE LET row == rows[lnum]
         IN  IF row.cols = 0 THEN LogRows(rows, lnum + 1, log)
             ELSE IF row.cols = 1 THEN LogRows(rows, lnum + 1, log)
             ELSE IF AllNotNumeric(row) /\ lnum < 3
                  THEN LogRows(rows, lnum + 1, log)
             ELSE IF row.date = DateWord("Transactions Total")
                  THEN LogRows(rows, lnum + 1, log)
             ELSE LET cl == init_from_str_array(row)
                  IN  IF cl.exc = "none" THEN LogRows(rows, lnum + 1, log)
                      ELSE IF cl.exc = "ValueError"
                      THEN LogRows(rows, lnum + 1, Append(log, lnum))
                      ELSE IF cl.exc = "AssertionError" THEN Append(log, lnum)
                      ELSE log

\* day_to_transactions: per day the positions in lines of its records, in
\* the order of lines
DayToTransactions(lines) ==
    [k \in {DayOf(lines[i].date) : i \in 1..Len(lines)} |->
        SelectSeq([i \in 1..Len(lines) |-> i], LAMBDA i : DayOf(lines[i].date) = k)]

\* the offsets given in file order instead of reverse order
DisambiguateForward(lines) ==
    LET d2t == DayToTransactions(lines)
        second(i) ==
            LET txs == d2t[DayOf(lines[i].date)]
                p == CHOOSE q \in 1..Len(txs) : txs[q] = i
            IN  p - 1
    IN  [i \in 1..Len(lines) |-> [lines[i] EXCEPT !.date = @ + second(i)]]

\* no offsets at all
NoDisambiguate(lines) == lines

\* for tx in reversed(txs): tx.date += timedelta(seconds=second); second += 1
\* the record at position p of a day's list of n is reached with second = n - p
Disambiguate(lines) ==
    LET d2t == DayToTransactions(lines)
        second(i) ==
            LET txs == d2t[DayOf(lines[i].date)]
                p == CHOOSE q \in 1..Len(txs) : txs[q] = i
            IN  Len(txs) - p
    IN  [i \in 1..Len(lines) |-> [lines[i] EXCEPT !.date = @ + second(i)]]

load_csv(rows) ==
    LET r == ReadRows(rows, 1, <<>>)
    IN  IF r.exc # "none" THEN r ELSE Ok(Disambiguate(r.val))

-----------------------------------------------------------------------------
(* import_csv *)

StoredActions ==
    {"BUY_TO_OPEN", "BUY_TO_CLOSE", "SELL_TO_OPEN", "SELL_TO_CLOSE",
     "EXPIRED", "BUY", "SELL"}

\* a loop without the test of line.action
IsStoredAny(line) == TRUE

\* the loop's test of line.action
IsStored(line) == line.action \in StoredActions

\* a document whose underlying is taken from the last token of the symbol
InsertLastToken(line, now) ==
    LET option == is_option(line)
        token(n) == IF option THEN SomeText(line.symbol[n]) ELSE NoText
    IN  [id |-> key(line),
         str_date |-> line.str_date,
         date |-> line.date,
         action |-> line.action,
         symbol |-> line.symbol,
         desc |-> line.desc,
         quantity |-> OptionalStr(line.quantity),
         price |-> format_price(line.price),
         fees |-> format_price(line.fees),
         amount |-> format_price(line.amount),
         insertion_date |-> now,
         last_update_date |-> now,
         underlying |-> token(4),
         expiration |-> token(2),
         strike |-> token(3),
         option_type |-> IF ~option THEN NoText
                         ELSE IF line.symbol[4] = "P" THEN SomeText("PUT")
                         ELSE SomeText("CALL")]

\* the document of $setOnInsert, with the _id of the filter and the $set
\* field; the four option fields are absent (NoText) for the other records
Insert(line, now) ==
    LET option == is_option(line)
        token(n) == IF option THEN SomeText(line.symbol[n]) ELSE NoText
    IN  [id |-> key(line),
         str_date |-> line.str_date,
         date |-> line.date,
         action |-> line.action,
         symbol |-> line.symbol,
         desc |-> line.desc,
         quantity |-> OptionalStr(line.quantity),
         price |-> format_price(line.price),
         fees |-> format_price(line.fees),
         amount |-> format_price(line.amount),
         insertion_date |-> now,
         last_update_date |-> now,
         underlying |-> token(1),
         expiration |-> token(2),
         strike |-> token(3),
         option_type |-> IF ~option THEN NoText
                         ELSE IF line.symbol[4] = "P" THEN SomeText("PUT")
                         ELSE SomeText("CALL")]

Keys(trans) == {trans[i].id : i \in 1..Len(trans)}

\* an update whose insert document is under "$set": it overwrites the document
update_one_set(trans, insert, now) ==
    IF insert.id \in {trans[i].id : i \in 1..Len(trans)}
    THEN [i \in 1..Len(trans) |->
             IF trans[i].id = insert.id
             THEN [insert EXCEPT !.last_update_date = now]
             ELSE trans[i]]
    ELSE Append(trans, [insert EXCEPT !.last_update_date = now])

\* an insert_one in place of the upsert: no look-up of the key
update_one_insert(trans, insert, now) ==
    Append(trans, [insert EXCEPT !.last_update_date = now])

\* trans.update_one(filter={"_id": k}, update={"$setOnInsert": insert,
\* "$set": {"last_update_date": now}}, upsert=True)
update_one(trans, insert, now) ==
    IF insert.id \in Keys(trans)
    THEN [i \in 1..Len(trans) |->
             IF trans[i].id = insert.id
             THEN [trans[i] EXCEPT !.last_update_date = now]
             ELSE trans[i]]
    ELSE Append(trans, [insert EXCEPT !.last_update_date = now])

\* one pass of the loop body for line; utcnow is read once per stored line
Upsert(trans, line, now) ==
    IF ~IsStored(line) THEN [exc |-> "none", store |-> trans, clock |-> now]
    ELSE IF is_option(line) /\ Len(line.symbol) < 4
    THEN [exc |-> "IndexError", store |-> trans, clock |-> now + 1]
    ELSE [exc |-> "none", store |-> update_one(trans, Insert(line, now), now),
          clock |-> now + 1]

RECURSIVE import_from(_, _, _, _)
import_from(trans, lines, n, now) ==
    IF n > Len(lines) THEN [exc |-> "none", store |-> trans, clock |-> now]
    ELSE LET r == Upsert(trans, lines[n], now)
         IN  IF r.exc # "none" THEN r
             ELSE import_from(r.store, lines, n + 1, r.clock)

import_csv(trans, lines, now) == import_from(trans, lines, 1, now)

-----------------------------------------------------------------------------
(* wavg and Leg *)

RECURSIVE GCD(_, _)
GCD(a, b) == IF b = 0 THEN a ELSE GCD(b, a % b)

Abs(x) == IF x < 0 THEN 0 - x ELSE x

\* the Decimal s / t for t # 0, kept as the fraction in lowest terms
Quotient(s, t) ==
    LET g == GCD(Abs(s), Abs(t))
        sg == IF t < 0 THEN -1 ELSE 1
    IN  [num |-> sg * (s \div g), den |-> sg * (t \div g)]

NoQuotient == [num |-> 0, den |-> 0]

\* the loop of wavg over lst[n..], a list of (price, quantity): Decimal
\* times None is a TypeError
RECURSIVE wavg_from(_, _, _, _)
wavg_from(lst, n, s, t) ==
    IF n > Len(lst)
    THEN IF t # 0 THEN Ok(Quotient(s, t))
         ELSE IF s = 0 THEN Raise("InvalidOperation", NoQuotient)
         ELSE Raise("DivisionByZero", NoQuotient)
    ELSE IF ~lst[n][2].some THEN Raise("TypeError", NoQuotient)
    ELSE wavg_from(lst, n + 1, s + lst[n][1] * lst[n][2].val, t + lst[n][2].val)

wavg(lst) == wavg_from(lst, 1, 0, 0)

\* the (price, quantity) of the lines whose action is one of kinds
PriceQuantity(lines, kinds) ==
    LET picked == SelectSeq(lines, LAMBDA cl : cl.action \in kinds)
    IN  [n \in 1..Len(picked) |-> <<picked[n].price, picked[n].quantity>>]

\* the result of an average: no value, or the fraction
NoAverage == [some |-> FALSE, val |-> NoQuotient]

price_avg(l, kinds) ==
    LET lst == PriceQuantity(l.lines, kinds)
    IN  IF Len(lst) > 0
        THEN LET w == wavg(lst)
             IN  IF w.exc = "none" THEN Ok(Some(w.val)) ELSE Raise(w.exc, NoAverage)
        ELSE Ok(NoAverage)

open_price_avg(l) == price_avg(l, {"SELL_TO_OPEN", "BUY_TO_OPEN"})

close_price_avg(l) == price_avg(l, {"SELL_TO_CLOSE", "BUY_TO_CLOSE"})

\* a sum in which a closing line counts against the side it closes
RECURSIVE quantity_from_flipped(_, _, _)
quantity_from_flipped(lines, n, quantity) ==
    IF n > Len(lines) THEN Ok(quantity)
    ELSE LET cl == lines[n]
         IN  IF cl.action \in {"BUY_TO_OPEN", "SELL_TO_CLOSE"}
             THEN IF ~cl.quantity.some THEN Raise("TypeError", 0)
                  ELSE quantity_from_flipped(lines, n + 1, quantity + cl.quantity.val)
             ELSE IF cl.action \in {"SELL_TO_OPEN", "BUY_TO_CLOSE"}
             THEN IF ~cl.quantity.some THEN Raise("TypeError", 0)
                  ELSE quantity_from_flipped(lines, n + 1, quantity - cl.quantity.val)
             ELSE quantity_from_flipped(lines, n + 1, quantity)

\* the loop of Leg.quantity_sum over lines[n..]: Decimal plus None is a
\* TypeError
RECURSIVE quantity_from(_, _, _)
quantity_from(lines, n, quantity) ==
    IF n > Len(lines) THEN Ok(quantity)
    ELSE LET cl == lines[n]
         IN  IF cl.action \in {"BUY_TO_OPEN", "BUY_TO_CLOSE"}
             THEN IF ~cl.quantity.some THEN Raise("TypeError", 0)
                  ELSE quantity_from(lines, n + 1, quantity + cl.quantity.val)
             ELSE IF cl.action \in {"SELL_TO_OPEN", "SELL_TO_CLOSE"}
             THEN IF ~cl.quantity.some THEN Raise("TypeError", 0)
                  ELSE quantity_from(lines, n + 1, quantity - cl.quantity.val)
             ELSE quantity_from(lines, n + 1, quantity)

quantity_sum(l) == quantity_from(l.lines, 1, 0)

\* Leg.is_closed
is_closed(l) ==
    LET q == quantity_sum(l)
    IN  IF q.exc = "none" THEN Ok(q.val = 0) ELSE Raise(q.exc, FALSE)

-----------------------------------------------------------------------------
(* Position *)

Leg(symbol, lines) == [symbol |-> symbol, lines |-> lines]

Position(strategy, legs) == [strategy |-> strategy, legs |-> legs]

\* all(map(lambda l: l.is_closed(), legs)) over legs[n..]: stops at the first
\* leg that is not closed
RECURSIVE all_closed(_, _)
all_closed(legs, n) ==
    IF n > Len(legs) THEN Ok(TRUE)
    ELSE LET c == is_closed(legs[n])
         IN  IF c.exc # "none" THEN c
             ELSE IF ~c.val THEN Ok(FALSE)
             ELSE all_closed(legs, n + 1)

\* Position.is_closed: a Position without legs is closed
Position_is_closed(pos) == all_closed(pos.legs, 1)

\* an add_leg that appends the leg without looking for one of its symbol
add_leg_append(pos, l) == [pos EXCEPT !.legs = Append(@, l)]

\* Position.add_leg: the lines go to the first leg of the same symbol, and the
\* leg is appended when there is none
add_leg(pos, l) ==
    LET found == {n \in 1..Len(pos.legs) : pos.legs[n].symbol = l.symbol}
    IN  IF found = {} THEN [pos EXCEPT !.legs = Append(@, l)]
        ELSE LET n == CHOOSE m \in found : \A k \in found : m <= k
             IN  [pos EXCEPT !.legs[n].lines = @ \o l.lines]

-----------------------------------------------------------------------------
(* Filter and get_positions *)

NoDate == [some |-> FALSE, val |-> DateWord("")]
SomeDate(d) == [some |-> TRUE, val |-> d]

\* a regular expression made of literal tokens separated by spaces, with or
\* without a trailing ".*"
NoPattern == [some |-> FALSE, val |-> <<>>, wild |-> FALSE]
SomePattern(tokens, wild) == [some |-> TRUE, val |-> tokens, wild |-> wild]

Range(start, end) == [start |-> start, end |-> end]

Filter(symbol, underlying, range) ==
    [symbol |-> symbol, underlying |-> underlying, range |-> range]

NoFilter == Filter(NoPattern, NoText, Range(NoDate, NoDate))

\* the lower case of a text, for the comparisons that ignore case
Lower(t) ==
    CASE t \in {"PRU", "Pru", "pru"} -> "pru"
      [] t \in {"P", "p"} -> "p"
      [] t \in {"NVDA", "nvda"} -> "nvda"
      [] t \in {"C", "c"} -> "c"
      [] OTHER -> t

\* the pattern is found somewhere in the symbol, case ignored: a search, not
\* a match of the whole text, so a trailing ".*" changes nothing
SymbolMatches(symbol, pattern) ==
    \E k \in 0..(Len(symbol) - Len(pattern.val)) :
        \A i \in 1..Len(pattern.val) : Lower(symbol[k + i]) = Lower(pattern.val[i])

\* the conditions a Filter adds to the query
MatchesFilter(x, filter) ==
    /\ filter.symbol.some => SymbolMatches(x.symbol, filter.symbol)
    /\ filter.underlying.some =>
          /\ x.underlying.some
          /\ Lower(x.underlying.val) = Lower(filter.underlying.val)
    /\ filter.range.start.some => x.date >= strptime(filter.range.start.val).val
    /\ filter.range.end.some => x.date <= strptime(filter.range.end.val).val

QueryActions == {"BUY_TO_OPEN", "SELL_TO_OPEN", "BUY_TO_CLOSE", "SELL_TO_CLOSE"}

\* a find without a query: every document of the collection
IsAnyDocument(x) == TRUE

\* {"underlying": {"$exists": 1}, "action": {"$in": [...]}}
IsOptionTrade(x) == x.underlying.some /\ x.action \in QueryActions

\* trans.find(query): the matching documents in the order of the collection,
\* no sort being asked for
find(trans, filter) ==
    SelectSeq(trans, LAMBDA x : IsOptionTrade(x) /\ MatchesFilter(x, filter))

EmptyMap == [s \in {} |-> 0]

\* positions_map[symbol] = pos: the Position is shared with the list
\* positions, so the map holds its place in the list
Register(positions_map, symbol, at) ==
    [s \in DOMAIN positions_map \cup {symbol} |->
        IF s = symbol THEN at ELSE positions_map[s]]

\* a loop body that never registers the new Position for its symbol
ScanRecordUnregistered(positions_map, positions, x) ==
    LET known == x.symbol \in DOMAIN positions_map
        closed == IF known THEN Position_is_closed(positions[positions_map[x.symbol]])
                  ELSE Ok(FALSE)
        fresh == ~known \/ closed.val
        positions1 == IF fresh THEN Append(positions, Position("CUSTOM", <<>>))
                      ELSE positions
        at == IF fresh THEN Len(positions1) ELSE positions_map[x.symbol]
        cl == init_from_transaction(x)
    IN  IF closed.exc # "none"
        THEN [exc |-> closed.exc, positions_map |-> positions_map,
              positions |-> positions]
        ELSE IF cl.exc # "none"
        THEN [exc |-> cl.exc, positions_map |-> positions_map,
              positions |-> positions1]
        ELSE [exc |-> "none", positions_map |-> positions_map,
              positions |-> [positions1 EXCEPT ![at] =
                                add_leg(@, Leg(x.symbol, <<cl.val>>))]]

\* a loop body that puts a new Position at the head of the list
ScanRecordFront(positions_map, positions, x) ==
    LET known == x.symbol \in DOMAIN positions_map
        closed == IF known THEN Position_is_closed(positions[positions_map[x.symbol]])
                  ELSE Ok(FALSE)
        fresh == ~known \/ closed.val
        positions1 == IF fresh THEN <<Position("CUSTOM", <<>>)>> \o positions
                      ELSE positions
        map1 == IF fresh
                THEN [s \in DOMAIN positions_map \cup {x.symbol} |->
                         IF s = x.symbol THEN 1 ELSE positions_map[s] + 1]
                ELSE positions_map
        cl == init_from_transaction(x)
    IN  IF closed.exc # "none"
        THEN [exc |-> closed.exc, positions_map |-> positions_map,
              positions |-> positions]
        ELSE IF cl.exc # "none"
        THEN [exc |-> cl.exc, positions_map |-> map1, positions |-> positions1]
        ELSE [exc |-> "none", positions_map |-> map1,
              positions |-> [positions1 EXCEPT ![map1[x.symbol]] =
                                add_leg(@, Leg(x.symbol, <<cl.val>>))]]

\* a loop body without the test pos.is_closed()
ScanRecordNoClosedTest(positions_map, positions, x) ==
    LET known == x.symbol \in DOMAIN positions_map
        fresh == ~known
        positions1 == IF fresh THEN Append(positions, Position("CUSTOM", <<>>))
                      ELSE positions
        map1 == IF fresh THEN Register(positions_map, x.symbol, Len(positions1))
                ELSE positions_map
        cl == init_from_transaction(x)
    IN  IF cl.exc # "none"
        THEN [exc |-> cl.exc, positions_map |-> map1, positions |-> positions1]
        ELSE [exc |-> "none", positions_map |-> map1,
              positions |-> [positions1 EXCEPT ![map1[x.symbol]] =
                                add_leg(@, Leg(x.symbol, <<cl.val>>))]]

\* one pass of the loop body of get_positions, for the document x
ScanRecord(positions_map, positions, x) ==
    LET known == x.symbol \in DOMAIN positions_map
        closed == IF known THEN Position_is_closed(positions[positions_map[x.symbol]])
                  ELSE Ok(FALSE)
        fresh == ~known \/ closed.val
        positions1 == IF fresh THEN Append(positions, Position("CUSTOM", <<>>))
                      ELSE positions
        map1 == IF fresh THEN Register(positions_map, x.symbol, Len(positions1))
                ELSE positions_map
        cl == init_from_transaction(x)
    IN  IF closed.exc # "none"
        THEN [exc |-> closed.exc, positions_map |-> positions_map,
              positions |-> positions]
        ELSE IF cl.exc # "none"
        THEN [exc |-> cl.exc, positions_map |-> map1, positions |-> positions1]
        ELSE [exc |-> "none", positions_map |-> map1,
              positions |-> [positions1 EXCEPT ![map1[x.symbol]] =
                                add_leg(@, Leg(x.symbol, <<cl.val>>))]]

\* a get_positions whose list and map outlive the call
BeginKept(trans, filter) ==
    [pc |-> "scan", filter |-> filter, ret |-> find(trans, filter), n |-> 1,
     positions_map |-> scan.positions_map, positions |-> scan.positions,
     exc |-> "none"]

\* get_positions up to its loop: the cursor of the query and the empty locals
Begin(trans, filter) ==
    [pc |-> "scan", filter |-> filter, ret |-> find(trans, filter), n |-> 1,
     positions_map |-> EmptyMap, positions |-> <<>>, exc |-> "none"]

-----------------------------------------------------------------------------
(* Input files *)

PRU100P == <<"PRU", "03/18/2022", "100.00", "P">>
PRU110P == <<"PRU", "03/18/2022", "110.00", "P">>
NVDA300C == <<"NVDA", "04/01/2022", "300.00", "C">>
AAPL == <<"AAPL">>

DescPRU == "PUT PRUDENTIAL FINL EXP 03/18/22"
DescNVDA == "CALL NVIDIA CORP EXP 04/01/22"
DescAAPL == "APPLE INC"

\* "Date","Action","Symbol","Description","Quantity","Price","Fees & Comm","Amount",
HeaderRow ==
    Row(9, DateWord("Date"), "Action", <<"Symbol">>, "Description",
        Word("Quantity"), [sign |-> "", cur |-> "", mag |-> Word("Price")],
        [sign |-> "", cur |-> "", mag |-> Word("Fees & Comm")],
        [sign |-> "", cur |-> "", mag |-> Word("Amount")])

\* 02/07/2022 Sell to Open PRU 100 P, 1 @ $1.66, fees $0.66, amount $165.34
SellOpen ==
    Row(9, DateText(7, TRUE), "Sell to Open", PRU100P, DescPRU,
        Digits(1), Dollar(166), Dollar(66), Dollar(16534))

\* the same trade with the fees the broker corrected later: same natural key
SellOpenRefee ==
    Row(9, DateText(7, TRUE), "Sell to Open", PRU100P, DescPRU,
        Digits(1), Dollar(166), Dollar(65), Dollar(16535))

\* 02/07/2022 Buy to Close PRU 100 P, 1 @ $0.77, amount -$77.66
BuyClose ==
    Row(9, DateText(7, TRUE), "Buy to Close", PRU100P, DescPRU,
        Digits(1), Dollar(77), Dollar(66), MinusDollar(7766))

\* 02/08/2022 as of 02/07/2022 Buy to Open PRU 110 P, 2 @ $1.61
BuyOpen ==
    Row(9, AsOfText(8, TRUE), "Buy to Open", PRU110P, DescPRU,
        Digits(2), Dollar(161), Dollar(132), MinusDollar(32332))

\* 2/8/2022 Expired NVDA 300 C: no quantity, no price, the date not padded
Expired ==
    Row(9, DateText(8, FALSE), "Expired", NVDA300C, DescNVDA,
        EmptyText, EmptyPrice, EmptyPrice, EmptyPrice)

\* 02/08/2022 Sell AAPL 10 @ -$1.50 (a negative price), amount $15.00
SellStock ==
    Row(9, DateText(8, TRUE), "Sell", AAPL, DescAAPL,
        Digits(10), MinusDollar(150), EmptyPrice, Dollar(1500))

\* 02/08/2022 Cash Dividend AAPL, amount $2.20: a kind import_csv skips
Dividend ==
    Row(9, DateText(8, TRUE), "Cash Dividend", AAPL, DescAAPL,
        EmptyText, EmptyPrice, EmptyPrice, Dollar(220))

\* an action text that Action.from_string does not know
Unknown ==
    Row(9, DateText(7, TRUE), "Bond Interest", AAPL, DescAAPL,
        EmptyText, EmptyPrice, EmptyPrice, Dollar(100))

\* an unknown action text on a row that has a quantity
UnknownTrade ==
    Row(9, DateText(7, TRUE), "Bond Interest", PRU100P, DescPRU,
        Digits(1), Dollar(77), Dollar(66), Dollar(100))

\* a price without its "$" marker: parse_price's assertion fails
NoMarker ==
    Row(9, DateText(7, TRUE), "Buy to Close", PRU100P, DescPRU,
        Digits(1), [sign |-> "", cur |-> "", mag |-> DecimalText(77)],
        Dollar(66), MinusDollar(7766))

\* a price with the marker and a magnitude that is no number
BadPrice ==
    Row(9, DateText(7, TRUE), "Buy to Close", PRU100P, DescPRU,
        Digits(1), [sign |-> "", cur |-> "$", mag |-> Word("n/a")],
        Dollar(66), MinusDollar(7766))

\* "Transactions Total","","","","","","",$87.68
FooterRow ==
    Row(8, DateWord("Transactions Total"), "", <<>>, "",
        EmptyText, EmptyPrice, EmptyPrice, Dollar(8768))

\* "Transactions  for account ...": one field
TitleRow ==
    Row(1, DateWord("Transactions"), "", <<>>, "",
        EmptyText, EmptyPrice, EmptyPrice, EmptyPrice)

TradeRows == {SellOpen, SellOpenRefee, BuyClose, BuyOpen}

StoreRows == TradeRows \cup {Expired, SellStock, Dividend, Unknown}

\* the files main imports: a file of any one row, of any two trades, and
\* four longer exports
Files ==
    {<<a>> : a \in StoreRows} \cup
    {<<a, b>> : a \in TradeRows, b \in TradeRows} \cup
    {<<TitleRow, HeaderRow, BuyClose, SellOpen, SellOpen, FooterRow>>,
     <<HeaderRow, BuyOpen, BuyClose, Dividend, SellOpen>>,
     <<SellStock, BuyClose, Expired, BuyClose>>,
     <<SellOpen, NoMarker, BuyClose>>}

\* the files given to load_csv alone
LoadRows ==
    StoreRows \cup {HeaderRow, FooterRow, TitleRow, NoMarker, BadPrice, UnknownTrade}

LoadFiles == UNION {[1..n -> LoadRows] : n \in 1..MaxRows}

-----------------------------------------------------------------------------
(* main *)

NotLoaded == Raise("unset", <<>>)
NoLeg == [symbol |-> <<>>, lines |-> <<>>]
NoLegOut == [set |-> FALSE, method |-> "", out |-> Ok(0)]
NoScan ==
    [pc |-> "idle", filter |-> NoFilter, ret |-> <<>>, n |-> 0,
     positions_map |-> EmptyMap, positions |-> <<>>, exc |-> "none"]

Init ==
    /\ store = <<>>
    /\ clock = 0
    /\ runs = 0
    /\ file = <<>>
    /\ csv = NotLoaded
    /\ imported = {}
    /\ procs = <<>>
    /\ leg = NoLeg
    /\ legOut = NoLegOut
    /\ scan = NoScan
    /\ last = NoScan

\* main with cfg.action == "import": load_csv, then import_csv; an exception
\* of either ends the run, with the upserts made before it kept
Import(f) ==
    /\ runs < MaxRuns
    /\ runs' = runs + 1
    /\ file' = f
    /\ csv' = load_csv(f)
    /\ IF csv'.exc # "none"
       THEN UNCHANGED <<store, clock, imported>>
       ELSE LET r == import_csv(store, csv'.val, clock)
            IN  /\ store' = r.store
                /\ clock' = r.clock
                /\ imported' = IF r.exc = "none" THEN imported \cup {f}
                               ELSE imported
    /\ UNCHANGED <<procs, leg, legOut, scan, last>>

Next == \E f \in Files : Import(f)

Spec == Init /\ [][Next]_vars

-----------------------------------------------------------------------------
(* load_csv and import_csv on one file and an empty store *)

InitLoad ==
    /\ store = <<>>
    /\ clock = 0
    /\ runs = 0
    /\ file \in LoadFiles
    /\ csv = NotLoaded
    /\ imported = {}
    /\ procs = <<>>
    /\ leg = NoLeg
    /\ legOut = NoLegOut
    /\ scan = NoScan
    /\ last = NoScan

\* csv = load_csv(file)
Load ==
    /\ csv.exc = "unset"
    /\ csv' = load_csv(file)
    /\ UNCHANGED <<store, clock, runs, file, imported, procs, leg, legOut, scan, last>>

\* import_csv(client, csv)
ImportLoaded ==
    /\ csv.exc = "none"
    /\ runs = 0
    /\ LET r == import_csv(store, csv.val, clock)
       IN  /\ store' = r.store
           /\ clock' = r.clock
           /\ imported' = IF r.exc = "none" THEN {file} ELSE {}
    /\ runs' = 1
    /\ UNCHANGED <<file, csv, procs, leg, legOut, scan, last>>

NextLoad == Load \/ ImportLoaded

SpecLoad == InitLoad /\ [][NextLoad]_vars

-----------------------------------------------------------------------------
(* main with cfg.action == "list", after the import of one file *)

\* 02/09/2022 Sell to Open PRU 100 P, 1 @ $1.70
SellOpenLater ==
    Row(9, DateText(9, TRUE), "Sell to Open", PRU100P, DescPRU,
        Digits(1), Dollar(170), Dollar(66), Dollar(16934))

\* 02/08/2022 Buy to Open NVDA 300 C, 1 @ $8.22
BuyOpenNVDA ==
    Row(9, DateText(8, TRUE), "Buy to Open", NVDA300C, DescNVDA,
        Digits(1), Dollar(822), Dollar(66), MinusDollar(82266))

\* the rows of the files listed: the trades carry a quantity, as the broker
\* writes them
ListRows ==
    {SellOpen, BuyClose, BuyOpen, SellOpenLater, BuyOpenNVDA, Expired, SellStock}

ListFiles == UNION {[1..n -> ListRows] : n \in 1..MaxListRows}

\* cfg.filter
Filters ==
    {NoFilter} \cup
    {Filter(NoPattern, SomeText(u), Range(NoDate, NoDate)) :
        u \in {"PRU", "pru", "P", "NVDA"}} \cup
    {Filter(SomePattern(t, FALSE), NoText, Range(NoDate, NoDate)) :
        t \in {<<"aaa">>, PRU110P}} \cup
    {Filter(SomePattern(<<"PRU", "03/18/2022">>, TRUE), NoText, Range(NoDate, NoDate)),
     Filter(NoPattern, NoText, Range(SomeDate(DateText(8, TRUE)), NoDate)),
     Filter(NoPattern, NoText, Range(NoDate, SomeDate(DateText(8, TRUE)))),
     Filter(NoPattern, NoText, Range(NoDate, SomeDate(DateText(7, TRUE))))}

InitList == Init

ImportList == \E f \in ListFiles : runs = 0 /\ Import(f)

\* pos = options.get_positions(client, cfg.filter), up to the loop
Find ==
    \E filter \in Filters :
        /\ runs = 1
        /\ scan.pc = "idle"
        /\ scan' = Begin(store, filter)
        /\ UNCHANGED <<store, clock, runs, file, csv, imported, procs, leg, legOut, last>>

\* one pass of the loop: for x in ret
Step ==
    /\ scan.pc = "scan"
    /\ scan.n <= Len(scan.ret)
    /\ LET r == ScanRecord(scan.positions_map, scan.positions, scan.ret[scan.n])
       IN  scan' = [scan EXCEPT !.positions_map = r.positions_map,
                                !.positions = r.positions,
                                !.exc = r.exc,
                                !.n = @ + 1,
                                !.pc = IF r.exc = "none" THEN "scan" ELSE "raised"]
    /\ UNCHANGED <<store, clock, runs, file, csv, imported, procs, leg, legOut, last>>

\* return positions
Return ==
    /\ scan.pc = "scan"
    /\ scan.n > Len(scan.ret)
    /\ scan' = [scan EXCEPT !.pc = "done"]
    /\ UNCHANGED <<store, clock, runs, file, csv, imported, procs, leg, legOut, last>>

\* the same call once more, on the store as it is now
Again ==
    /\ scan.pc \in {"done", "raised"}
    /\ last' = scan
    /\ scan' = Begin(store, scan.filter)
    /\ UNCHANGED <<store, clock, runs, file, csv, imported, procs, leg, legOut>>

NextList == ImportList \/ Find \/ Step \/ Return \/ Again

SpecList == InitList /\ [][NextList]_vars

-----------------------------------------------------------------------------
(* Properties of load_csv and import_csv *)

\* d and e agree in every field but last_update_date
SameButUpdate(d, e) ==
    [d EXCEPT !.last_update_date = 0] = [e EXCEPT !.last_update_date = 0]

\* the lines of a load_csv result that import_csv is to store
StoredLines(lines) == {n \in 1..Len(lines) : lines[n].action \in StoredActions}

\* C1: importing a file that was imported before leaves the number of
\* documents, their keys and every field of every document as they were,
\* last_update_date excepted.
C1_IdempotentImport ==
    [][(runs' = runs + 1 /\ file' \in imported) =>
        /\ Len(store') = Len(store)
        /\ \A i \in 1..Len(store) : SameButUpdate(store[i], store'[i])]_vars

\* a second import of a file has run: it inserted nothing and refreshed all
C1_Witness ==
    /\ runs = 2
    /\ file \in imported
    /\ Len(store) >= 2
    /\ Len(store) = Cardinality(StoredLines(csv.val))
    /\ \A i \in 1..Len(store) : store[i].last_update_date > store[i].insertion_date

\* C2: a document that exists before an import is there after it with the
\* same key, payload and insertion_date; only last_update_date may change.
C2_PayloadImmutable ==
    [][\A i \in 1..Len(store) : \E j \in 1..Len(store') :
          /\ store'[j].id = store[i].id
          /\ SameButUpdate(store[i], store'[j])]_vars

\* a record was upserted on a key stored with other fees and amount
C2_Witness ==
    /\ csv.exc = "none"
    /\ \E n \in 1..Len(csv.val) : \E i \in 1..Len(store) :
          /\ store[i].id = key(csv.val[n])
          /\ store[i].fees # format_price(csv.val[n].fees)
          /\ store[i].amount # format_price(csv.val[n].amount)
          /\ store[i].last_update_date > store[i].insertion_date

\* the document d holds the transaction of row r: all that the row says
DocOfRow(d, r) ==
    LET cl == init_from_str_array(r).val
    IN  /\ d.str_date = cl.str_date
        /\ d.action = cl.action
        /\ d.symbol = cl.symbol
        /\ d.desc = cl.desc
        /\ d.quantity = OptionalStr(cl.quantity)
        /\ d.price = format_price(cl.price)
        /\ d.fees = format_price(cl.fees)
        /\ d.amount = format_price(cl.amount)

Occurrences(f, r) == Cardinality({n \in 1..Len(f) : f[n] = r})

\* C3: a transaction row that the imported files hold once each is stored in
\* at most one document, whatever other rows of its day each file holds.
C3_NoDuplicateRows ==
    \A r \in TradeRows :
        (\A f \in imported : Occurrences(f, r) <= 1) =>
            Cardinality({i \in 1..Len(store) : DocOfRow(store[i], r)}) <= 1

PositionKinds ==
    {"BUY_TO_OPEN", "BUY_TO_CLOSE", "SELL_TO_OPEN", "SELL_TO_CLOSE",
     "EXPIRED", "BUY", "SELL"}

\* C5: every stored document has one of the seven position-relevant actions,
\* and an import whose records are all of other kinds leaves the store as
\* it was.
C5_OnlyPositionKinds ==
    /\ [](\A i \in 1..Len(store) : store[i].action \in PositionKinds)
    /\ [][(csv'.exc = "none" /\ runs' = runs + 1 /\
           \A n \in 1..Len(csv'.val) : csv'.val[n].action \notin PositionKinds)
          => store' = store]_vars

\* a dividend was parsed and imported into a store that holds documents
C5_Witness ==
    /\ csv.exc = "none"
    /\ file \in imported
    /\ \E n \in 1..Len(csv.val) : csv.val[n].action = "CASH_DIVIDEND"
    /\ Len(store) >= 1

\* C6: the records of one load_csv call have pairwise different keys, and
\* importing them into an empty store makes one document per record of a
\* position-relevant kind.
C6_KeyUniqueInFile ==
    csv.exc = "none" =>
        /\ \A m, n \in 1..Len(csv.val) : m # n => key(csv.val[m]) # key(csv.val[n])
        /\ runs = 1 =>
            /\ Len(store) = Cardinality(StoredLines(csv.val))
            /\ \A n \in StoredLines(csv.val) :
                  Cardinality({i \in 1..Len(store) : store[i].id = key(csv.val[n])}) = 1

\* two rows of one day that agree in action, quantity, symbol and price were
\* imported
C6_Witness ==
    /\ csv.exc = "none"
    /\ runs = 1
    /\ \E m, n \in StoredLines(csv.val) :
          /\ m # n
          /\ [csv.val[m] EXCEPT !.date = 0] = [csv.val[n] EXCEPT !.date = 0]
          /\ DayOf(csv.val[m].date) = DayOf(csv.val[n].date)

\* the positions in the file of the rows that load_csv turns into records
Accepted(f) ==
    SelectSeq([n \in 1..Len(f) |-> n],
              LAMBDA n : /\ f[n].cols >= 2
                         /\ ~(n < 3 /\ AllNotNumeric(f[n]))
                         /\ f[n].date # DateWord("Transactions Total")
                         /\ init_from_str_array(f[n]).exc = "none")

\* C7: the record that is k-th from the end among the records of its day has
\* the timestamp midnight + k seconds: within a day the timestamps differ and
\* decrease with the position, and the list is in file order.
C7_SameDayOffsets ==
    csv.exc = "none" =>
        LET lines == csv.val
            acc == Accepted(file)
            midnight(n) == strptime(lines[n].str_date).val
            after(n) == {m \in (n + 1)..Len(lines) : midnight(m) = midnight(n)}
        IN  /\ Len(lines) = Len(acc)
            /\ \A n \in 1..Len(lines) :
                  /\ lines[n].date = midnight(n) + Cardinality(after(n))
                  /\ [lines[n] EXCEPT !.date = midnight(n)] =
                        init_from_str_array(file[acc[n]]).val
            /\ \A m, n \in 1..Len(lines) :
                  (m < n /\ midnight(m) = midnight(n)) => lines[m].date > lines[n].date

\* three records were loaded, the first and the last of one day and the
\* second of another
C7_Witness ==
    /\ csv.exc = "none"
    /\ Len(csv.val) = 3
    /\ DayOf(csv.val[1].date) = DayOf(csv.val[3].date)
    /\ DayOf(csv.val[2].date) # DayOf(csv.val[1].date)
    /\ csv.val[1].date = csv.val[3].date + 1

\* C8: every document an import inserts gives back, by
\* CSVLine.init_from_transaction, the record of load_csv it was made from.
C8_RoundTrip ==
    [][\A j \in 1..Len(store') :
          store'[j].id \notin Keys(store) =>
              \E n \in 1..Len(csv'.val) :
                  /\ key(csv'.val[n]) = store'[j].id
                  /\ init_from_transaction(store'[j]).exc = "none"
                  /\ init_from_transaction(store'[j]).val = csv'.val[n]]_vars

-----------------------------------------------------------------------------
(* Two imports at once on one store *)

Procs == {1, 2}

ConcRows == {SellOpen, SellOpenRefee, BuyClose, Dividend}

\* the records of each import: load_csv of a file of ConcRows
ConcLines ==
    {load_csv(f).val : f \in UNION {[1..n -> ConcRows] : n \in 1..MaxConcLines}}

InitConc ==
    /\ store = <<>>
    /\ clock = 0
    /\ runs = 0
    /\ file = <<>>
    /\ csv = NotLoaded
    /\ imported = {}
    /\ procs \in [Procs -> {[lines |-> l, n |-> 1, pc |-> "loop", now |-> 0] :
                              l \in ConcLines}]
    /\ leg = NoLeg
    /\ legOut = NoLegOut
    /\ scan = NoScan
    /\ last = NoScan

\* the loop of import_csv up to the update: the test of the action, utcnow
\* and the insert document
Loop(p) ==
    /\ procs[p].pc = "loop"
    /\ procs[p].n <= Len(procs[p].lines)
    /\ LET line == procs[p].lines[procs[p].n]
       IN  IF ~IsStored(line)
           THEN /\ procs' = [procs EXCEPT ![p].n = @ + 1]
                /\ UNCHANGED clock
           ELSE /\ clock' = clock + 1
                /\ procs' = [procs EXCEPT
                       ![p].now = clock,
                       ![p].pc = IF is_option(line) /\ Len(line.symbol) < 4
                                 THEN "IndexError" ELSE "update"]
    /\ UNCHANGED <<store, runs, file, csv, imported, leg, legOut, scan, last>>

\* trans.update_one, which the store runs as one step
Update(p) ==
    /\ procs[p].pc = "update"
    /\ LET line == procs[p].lines[procs[p].n]
       IN  store' = update_one(store, Insert(line, procs[p].now), procs[p].now)
    /\ procs' = [procs EXCEPT ![p].n = @ + 1, ![p].pc = "loop"]
    /\ UNCHANGED <<clock, runs, file, csv, imported, leg, legOut, scan, last>>

NextConc == \E p \in Procs : Loop(p) \/ Update(p)

SpecConc == InitConc /\ [][NextConc]_vars

-----------------------------------------------------------------------------
(* The methods of a Leg *)

LegActions ==
    {"BUY_TO_OPEN", "SELL_TO_OPEN", "BUY_TO_CLOSE", "SELL_TO_CLOSE", "EXPIRED"}

LegLines ==
    {CSVLine(DateText(7, TRUE), 7 * SecondsPerDay, a, PRU100P, DescPRU, q, p, 0, 0) :
        a \in LegActions, q \in {None, Some(0), Some(1), Some(2)}, p \in {100, 250}}

Legs ==
    {[symbol |-> PRU100P, lines |-> l] :
        l \in UNION {[1..n -> LegLines] : n \in 0..MaxLines}}

InitLeg ==
    /\ store = <<>>
    /\ clock = 0
    /\ runs = 0
    /\ file = <<>>
    /\ csv = NotLoaded
    /\ imported = {}
    /\ procs = <<>>
    /\ leg \in Legs
    /\ legOut = NoLegOut
    /\ scan = NoScan
    /\ last = NoScan

LegFrame ==
    UNCHANGED <<store, clock, runs, file, csv, imported, procs, leg, scan, last>>

CallQuantitySum ==
    /\ legOut' = [set |-> TRUE, method |-> "quantity_sum", out |-> quantity_sum(leg)]
    /\ LegFrame

CallOpenPriceAvg ==
    /\ legOut' = [set |-> TRUE, method |-> "open_price_avg", out |-> open_price_avg(leg)]
    /\ LegFrame

CallClosePriceAvg ==
    /\ legOut' = [set |-> TRUE, method |-> "close_price_avg", out |-> close_price_avg(leg)]
    /\ LegFrame

CallIsClosed ==
    /\ legOut' = [set |-> TRUE, method |-> "is_closed", out |-> is_closed(leg)]
    /\ LegFrame

NextLeg == CallQuantitySum \/ CallOpenPriceAvg \/ CallClosePriceAvg \/ CallIsClosed

SpecLeg == InitLeg /\ [][NextLeg]_vars

-----------------------------------------------------------------------------
(* Properties of two imports at once *)

Done == \A p \in Procs : procs[p].n > Len(procs[p].lines)

\* a document without its two timestamps
Payload(d) == [d EXCEPT !.insertion_date = 0, !.last_update_date = 0]

Payloads(trans) == {Payload(trans[i]) : i \in 1..Len(trans)}

\* the records the two imports are to store
ConcRecords ==
    UNION {{procs[p].lines[n] : n \in StoredLines(procs[p].lines)} : p \in Procs}

\* the store after the import of process 1 followed by that of process 2
OneAfterTheOther ==
    import_csv(import_csv(<<>>, procs[1].lines, 0).store, procs[2].lines, 0).store

\* C4 as stated: when both imports have ended, the keys and the payload of
\* every key are those of the imports run one after the other, whatever the
\* interleaving was.
C4_SameStateEveryInterleaving ==
    Done => Payloads(store) = Payloads(OneAfterTheOther)


\* C4, amended: when both imports have ended the store holds one document
\* per key of their records, each with the payload of a record of that key;
\* so the payloads are the same under every interleaving when the records
\* that share a key are equal.
C4_Converges ==
    Done =>
        /\ Keys(store) = {key(r) : r \in ConcRecords}
        /\ Len(store) = Cardinality(Keys(store))
        /\ \A i \in 1..Len(store) : \E r \in ConcRecords :
              /\ key(r) = store[i].id
              /\ Payload(store[i]) = Payload(Insert(r, 0))
        /\ (\A r, q \in ConcRecords :
                key(r) = key(q) => Payload(Insert(r, 0)) = Payload(Insert(q, 0)))
           => Payloads(store) = {Payload(Insert(r, 0)) : r \in ConcRecords}

\* both imports have ended, they share a key, and one of them refreshed a
\* document of the other with a time it had read before the insert
C4_Witness ==
    /\ Done
    /\ \E m \in StoredLines(procs[1].lines), n \in StoredLines(procs[2].lines) :
          key(procs[1].lines[m]) = key(procs[2].lines[n])
    /\ Len(store) >= 2
    /\ \E i \in 1..Len(store) : store[i].last_update_date < store[i].insertion_date

-----------------------------------------------------------------------------
(* Properties of a Leg *)

RECURSIVE SeqSum(_)
SeqSum(q) == IF q = <<>> THEN 0 ELSE Head(q) + SeqSum(Tail(q))

\* the sum of the quantities, and of price * quantity, of the lines of kinds
SumQ(l, kinds) ==
    SeqSum([n \in 1..Len(l.lines) |->
               IF l.lines[n].action \in kinds THEN l.lines[n].quantity.val ELSE 0])

SumPQ(l, kinds) ==
    SeqSum([n \in 1..Len(l.lines) |->
               IF l.lines[n].action \in kinds
               THEN l.lines[n].price * l.lines[n].quantity.val ELSE 0])

OpenKinds == {"BUY_TO_OPEN", "SELL_TO_OPEN"}
CloseKinds == {"BUY_TO_CLOSE", "SELL_TO_CLOSE"}

LinesOf(l, kinds) == {n \in 1..Len(l.lines) : l.lines[n].action \in kinds}

\* out is the result the claim gives for the average over the lines of kinds:
\* no failure, no value for no such line, else sum(price * quantity) /
\* sum(quantity) (as num / den: num * sum(quantity) = den * sum(price * quantity))
AverageAsClaimed(l, kinds, out) ==
    LET idx == LinesOf(l, kinds)
    IN  /\ out.exc = "none"
        /\ out.val.some <=> idx # {}
        /\ idx # {} =>
              /\ out.val.val.den # 0
              /\ out.val.val.num * SumQ(l, kinds) = out.val.val.den * SumPQ(l, kinds)

\* every opening and closing line of the leg carries a quantity, as every
\* line that CSVLine.init_from_transaction returns does
AllQuantities(l) ==
    \A n \in LinesOf(l, OpenKinds \cup CloseKinds) : l.lines[n].quantity.some

\* C9: open_price_avg and close_price_avg never fail; each returns no value
\* exactly for a leg without opening (closing) lines and else the weighted
\* average of exactly those lines. Stated for the legs whose lines all carry
\* a quantity.
C9_AveragesNeverFail ==
    AllQuantities(leg) =>
        /\ legOut.method = "open_price_avg" =>
              AverageAsClaimed(leg, OpenKinds, legOut.out)
        /\ legOut.method = "close_price_avg" =>
              AverageAsClaimed(leg, CloseKinds, legOut.out)

\* the net quantity of the claim: + for the BUY lines, - for the SELL lines
Net(l) ==
    SumQ(l, {"BUY_TO_OPEN", "BUY_TO_CLOSE"}) - SumQ(l, {"SELL_TO_OPEN", "SELL_TO_CLOSE"})

\* the leg has lines, all of them of kinds, with positive quantities
OnlyLines(l, kinds) ==
    /\ Len(l.lines) > 0
    /\ \A n \in 1..Len(l.lines) :
          /\ l.lines[n].action \in kinds
          /\ l.lines[n].quantity.some
          /\ l.lines[n].quantity.val > 0

-----------------------------------------------------------------------------
(* Properties of get_positions *)

Symbols == {PRU100P, PRU110P, NVDA300C, AAPL}

\* the stored option trades of a symbol, oldest first
Chronological(trans, symbol) ==
    SortSeq(SelectSeq(trans, LAMBDA x : IsOptionTrade(x) /\ x.symbol = symbol),
            LAMBDA x, y : x.date < y.date)

\* the Positions of a list that have a leg of the symbol, in the list's order
PositionsOf(positions, symbol) ==
    SelectSeq(positions,
              LAMBDA pos : \E n \in 1..Len(pos.legs) : pos.legs[n].symbol = symbol)

\* the timestamps of the lines of a Position
DatesOf(pos) ==
    UNION {{pos.legs[n].lines[i].date : i \in 1..Len(pos.legs[n].lines)} :
              n \in 1..Len(pos.legs)}

\* the records of the symbol are, oldest first, an open, a close that brings
\* the net quantity to 0, and an open
OpenCloseOpen(recs) ==
    /\ Len(recs) = 3
    /\ <<recs[1].action, recs[2].action>> \in
          {<<"SELL_TO_OPEN", "BUY_TO_CLOSE">>, <<"BUY_TO_OPEN", "SELL_TO_CLOSE">>}
    /\ recs[1].quantity = recs[2].quantity
    /\ recs[3].action \in OpenKinds

\* C11: when the records of a symbol are, in chronological order, an open, a
\* close of the same quantity and an open, get_positions returns two Positions
\* for the symbol: the first closed, with the first two records, the second
\* open, with the last record only.
C11_PositionReopen ==
    (scan.pc = "done" /\ scan.filter = NoFilter) =>
        \A symbol \in Symbols :
            LET recs == Chronological(store, symbol)
                ps == PositionsOf(scan.positions, symbol)
            IN  OpenCloseOpen(recs) =>
                    /\ Len(ps) = 2
                    /\ Position_is_closed(ps[1]) = Ok(TRUE)
                    /\ DatesOf(ps[1]) = {recs[1].date, recs[2].date}
                    /\ Position_is_closed(ps[2]) = Ok(FALSE)
                    /\ DatesOf(ps[2]) = {recs[3].date}

\* C12: the lines of every Leg that get_positions returns are in ascending
\* order of their timestamps, whatever the order of the rows in the file.
C12_LinesAscending ==
    scan.pc = "done" =>
        \A p \in 1..Len(scan.positions) :
            \A n \in 1..Len(scan.positions[p].legs) :
                LET lines == scan.positions[p].legs[n].lines
                IN  \A i, j \in 1..Len(lines) :
                        i < j => lines[i].date < lines[j].date

\* the lines of the Positions of a list, each as its timestamp and symbol
LinesIn(positions) ==
    UNION {UNION {{<<pos.legs[n].lines[i].date, pos.legs[n].symbol>> :
                      i \in 1..Len(pos.legs[n].lines)} : n \in 1..Len(pos.legs)} :
              pos \in {positions[p] : p \in 1..Len(positions)}}

\* the stored records of the four open and close kinds on an option symbol
OptionTrades(trans) ==
    {x \in {trans[i] : i \in 1..Len(trans)} :
        Len(x.symbol) = 4 /\ x.action \in OpenKinds \cup CloseKinds}

\* the underlyings, as stored, that equal the text u when case is ignored
Selected(u) ==
    CASE u \in {"PRU", "pru"} -> {"PRU"}
      [] u \in {"NVDA", "nvda"} -> {"NVDA"}
      [] OTHER -> {}

OnlyUnderlying(filter) ==
    ~filter.symbol.some /\ ~filter.range.start.some /\ ~filter.range.end.some

OnlyRange(filter) == ~filter.symbol.some /\ ~filter.underlying.some

C18_PureRead ==
    [][scan' # scan =>
          /\ store' = store
          /\ (scan'.pc \in {"done", "raised"} /\ last'.pc # "idle") =>
                /\ scan'.positions = last'.positions
                /\ scan'.exc = last'.exc]_vars

\* the call was repeated and returned two Positions both times
C18_Witness ==
    /\ scan.pc = "done"
    /\ last.pc = "done"
    /\ Len(scan.positions) >= 2
    /\ Len(store) > Len(scan.ret)

\* the places in the list of the Positions of the symbol that are not closed
OpenAt(positions, symbol) ==
    {p \in 1..Len(positions) :
        /\ \E n \in 1..Len(positions[p].legs) : positions[p].legs[n].symbol = symbol
        /\ Position_is_closed(positions[p]) = Ok(FALSE)}

\* C19: at every step of the scan each symbol has at most one Position that
\* is not closed, and it is the one positions_map holds for the symbol.
C19_OneOpenPerSymbol ==
    \A symbol \in Symbols :
        \A p \in OpenAt(scan.positions, symbol) :
            /\ OpenAt(scan.positions, symbol) = {p}
            /\ symbol \in DOMAIN scan.positions_map
            /\ scan.positions_map[symbol] = p

\* before the scan returns, a symbol has a closed Position and, after it, an
\* open one
C19_Witness ==
    /\ scan.pc = "scan"
    /\ scan.n > 1
    /\ \E symbol \in Symbols :
          /\ OpenAt(scan.positions, symbol) # {}
          /\ Len(PositionsOf(scan.positions, symbol)) >= 2

\* C20: a Position that is closed, a record having been appended to it, stays
\* as it is for the rest of the scan, and the next record of its symbol (the
\* Position still being the one of positions_map) starts a new Position that
\* holds this record only.
C20_ClosedStaysClosed ==
    [][(scan.pc = "scan" /\ scan'.pc \in {"scan", "done", "raised"}) =>
          \A p \in 1..Len(scan.positions) :
              (scan.positions[p].legs # <<>> /\
               Position_is_closed(scan.positions[p]) = Ok(TRUE)) =>
                  /\ Len(scan'.positions) >= p
                  /\ scan'.positions[p] = scan.positions[p]
                  /\ (scan'.n > scan.n /\
                      scan.ret[scan.n].symbol = scan.positions[p].legs[1].symbol /\
                      scan.positions_map[scan.ret[scan.n].symbol] = p) =>
                        /\ Len(scan'.positions) = Len(scan.positions) + 1
                        /\ LinesIn(<<scan'.positions[Len(scan'.positions)]>>) =
                              {<<scan.ret[scan.n].date, scan.ret[scan.n].symbol>>}]_vars

\* the scan went past a record of a symbol whose Position was closed
C20_Witness ==
    /\ scan.pc = "scan"
    /\ scan.n = 4
    /\ Len(scan.positions) = 2
    /\ Position_is_closed(scan.positions[1]) = Ok(TRUE)
    /\ Len(scan.positions[1].legs[1].lines) = 2
    /\ scan.positions[2].legs[1].symbol = scan.positions[1].legs[1].symbol

-----------------------------------------------------------------------------
(* Properties of load_csv on rows it cannot parse *)

\* row n of the file is read as data: it is no title, header or footer row
IsData(f, n) ==
    /\ f[n].cols >= 2
    /\ ~(n < 3 /\ AllNotNumeric(f[n]))
    /\ f[n].date # DateWord("Transactions Total")

KnownAction(r) == r.action \in DOMAIN ActionNames

\* a price text that is not empty and lacks the "$" after its optional "-"
MissingMarker(s) == s # EmptyPrice /\ s.cur # "$"

\* a price text with the "$" and a magnitude that is no decimal number
Malformed(s) == s.cur = "$" /\ s.mag.form \notin {"digits", "decimal"}

Prices(r) == {r.price, r.fees, r.amount}

\* a data row of a known action whose date and quantity parse
Parsed(f, n) ==
    /\ IsData(f, n)
    /\ f[n].cols >= 8
    /\ f[n].date.form = "date"
    /\ KnownAction(f[n])
    /\ f[n].quantity.form # "word"

\* the rows load_csv is to return records for: the parsed rows with well
\* formed prices
ValidRows(f) ==
    SelectSeq([n \in 1..Len(f) |-> n],
              LAMBDA n : /\ Parsed(f, n)
                         /\ \A s \in Prices(f[n]) : ~MissingMarker(s) /\ ~Malformed(s))

\* the records are those of the rows at the positions rows, in that order,
\* the same-day offsets left aside
RecordsOf(lines, f, rows) ==
    /\ Len(lines) = Len(rows)
    /\ \A k \in 1..Len(lines) :
          LET r == f[rows[k]]
          IN  /\ lines[k].action = ActionNames[r.action]
              /\ lines[k].symbol = r.symbol
              /\ lines[k].desc = r.desc
              /\ DayOf(lines[k].date) = r.date.day
              /\ lines[k].quantity =
                    (IF r.quantity.form = "empty" THEN None ELSE Some(r.quantity.val))
              /\ format_price(lines[k].price).mag.val = r.price.mag.val
              /\ format_price(lines[k].fees).mag.val = r.fees.mag.val
              /\ format_price(lines[k].amount).mag.val = r.amount.mag.val

\* every data row of the file is valid or has an unknown action text
OnlyUnknownActions(f) ==
    \A n \in 1..Len(f) :
        IsData(f, n) => \/ n \in {ValidRows(f)[k] : k \in 1..Len(ValidRows(f))}
                        \/ (f[n].date.form = "date" /\ ~KnownAction(f[n]))

\* C13: in a file whose data rows are valid or carry an unknown action text,
\* load_csv returns, in file order, the records of the valid rows, wherever
\* the rows of unknown action are.
C13_UnknownActionDropped ==
    (csv.exc # "unset" /\ OnlyUnknownActions(file)) =>
        /\ csv.exc = "none"
        /\ RecordsOf(csv.val, file, ValidRows(file))

\* a row of unknown action that is read as data stands between two valid
\* rows, and the two records were returned
C13_Witness ==
    /\ csv.exc = "none"
    /\ Len(file) = 3
    /\ OnlyUnknownActions(file)
    /\ IsData(file, 2) /\ ~KnownAction(file[2])
    /\ ValidRows(file) = <<1, 3>>
    /\ Len(csv.val) = 2

\* every data row of the file is valid, has an unknown action text or has a
\* malformed price
OnlyRowLevelErrors(f) ==
    \A n \in 1..Len(f) :
        IsData(f, n) => \/ n \in {ValidRows(f)[k] : k \in 1..Len(ValidRows(f))}
                        \/ (f[n].date.form = "date" /\ ~KnownAction(f[n]))
                        \/ (Parsed(f, n) /\ \A s \in Prices(f[n]) : ~MissingMarker(s))

\* C14: a row with a malformed price is dropped and load_csv returns the
\* records of the valid rows.
C14_MalformedPriceDropped ==
    (csv.exc # "unset" /\ OnlyRowLevelErrors(file)) =>
        /\ csv.exc = "none"
        /\ RecordsOf(csv.val, file, ValidRows(file))

\* row n is a parsed data row with a price that lacks its marker
Violation(f, n) == Parsed(f, n) /\ \E s \in Prices(f[n]) : MissingMarker(s)

\* C15: when a parsed data row of the file has a price, fees or amount without
\* the "$" marker, load_csv fails with the AssertionError and the import
\* leaves the store as it was.
C15_StructuralViolationAborts ==
    [][(runs' = runs + 1 /\ \E n \in 1..Len(file') : Violation(file', n)) =>
          /\ csv'.exc = "AssertionError"
          /\ store' = store
          /\ imported' = imported]_vars

\* the second import met a row without the marker after a valid row, and the
\* store holds the records of the first import
C15_Witness ==
    /\ runs = 2
    /\ Len(file) >= 2
    /\ Violation(file, 2)
    /\ ValidRows(file) # <<>>
    /\ ValidRows(file)[1] = 1
    /\ csv.exc = "AssertionError"
    /\ store # <<>>

-----------------------------------------------------------------------------
(* Properties of the Positions get_positions returns *)

\* C21: the first line of the leg of every Position that get_positions
\* returns is an opening transaction, BUY_TO_OPEN or SELL_TO_OPEN.
C21_CreatedByOpen ==
    scan.pc = "done" =>
        \A p \in 1..Len(scan.positions) :
            \A n \in 1..Len(scan.positions[p].legs) :
                scan.positions[p].legs[n].lines[1].action \in OpenKinds

\* the whole loop of get_positions over ret[n..]
RECURSIVE ScanAll(_, _, _, _)
ScanAll(ret, n, positions_map, positions) ==
    IF n > Len(ret) THEN [exc |-> "none", positions |-> positions]
    ELSE LET r == ScanRecord(positions_map, positions, ret[n])
         IN  IF r.exc # "none" THEN [exc |-> r.exc, positions |-> r.positions]
             ELSE ScanAll(ret, n + 1, r.positions_map, r.positions)

\* the collection without its EXPIRED, BUY and SELL documents and without
\* the documents that have no underlying
WithoutOthers(trans) ==
    SelectSeq(trans, LAMBDA x : x.underlying.some /\ x.action \notin {"EXPIRED", "BUY", "SELL"})

\* the lines of the Positions of a list, each as its action and symbol
KindsIn(positions) ==
    UNION {UNION {{<<pos.legs[n].lines[i].action, pos.legs[n].lines[i].symbol>> :
                      i \in 1..Len(pos.legs[n].lines)} : n \in 1..Len(pos.legs)} :
              pos \in {positions[p] : p \in 1..Len(positions)}}

\* C22: every line of every Leg is an open or a close on an option symbol, at
\* every step of get_positions, and the Positions returned are those of the
\* store without its EXPIRED, BUY and SELL documents.
C22_OnlyOptionTrades ==
    /\ \A k \in KindsIn(scan.positions) :
          k[1] \in OpenKinds \cup CloseKinds /\ Len(k[2]) = 4
    /\ scan.pc = "done" =>
          scan.positions =
              ScanAll(find(WithoutOthers(store), scan.filter), 1, EmptyMap, <<>>).positions

\* the store holds an EXPIRED and a SELL document beside the one trade the
\* Position was made from
C22_Witness ==
    /\ scan.pc = "done"
    /\ scan.filter = NoFilter
    /\ Len(scan.positions) = 1
    /\ \E i \in 1..Len(store) : store[i].action = "EXPIRED"
    /\ \E i \in 1..Len(store) : store[i].action = "SELL"

\* the place in the scanned sequence of the record a line was made from
PlaceIn(ret, line) == CHOOSE i \in 1..Len(ret) : ret[i].date = line.date

\* the places in the scanned sequence of the records of a Position
PlacesOf(ret, pos) ==
    UNION {{PlaceIn(ret, pos.legs[n].lines[i]) : i \in 1..Len(pos.legs[n].lines)} :
              n \in 1..Len(pos.legs)}

\* the place of the first record appended to a Position
FirstPlace(ret, pos) ==
    CHOOSE i \in PlacesOf(ret, pos) : \A j \in PlacesOf(ret, pos) : i <= j

\* C23: Position A is before Position B in the list returned iff the first
\* record appended to A is before the first record appended to B in the
\* scanned sequence.
C23_CreationOrder ==
    scan.pc = "done" =>
        \A p, q \in 1..Len(scan.positions) :
            p < q <=> FirstPlace(scan.ret, scan.positions[p]) <
                      FirstPlace(scan.ret, scan.positions[q])

\* the first Position got the first and the third record, the second
\* Position the record between them
C23_Witness ==
    /\ scan.pc = "done"
    /\ Len(scan.ret) = 3
    /\ Len(scan.positions) = 2
    /\ PlacesOf(scan.ret, scan.positions[1]) = {1, 3}
    /\ PlacesOf(scan.ret, scan.positions[2]) = {2}

\* C25: the Positions returned partition the scanned records: every record is
\* a line of one Leg of one Position and of no other, every Position has one
\* Leg, every line has the symbol of its Leg, and the lines of a Leg are in
\* the order of the scanned sequence.
C25_Partition ==
    scan.pc = "done" =>
        LET ret == scan.ret
            positions == scan.positions
        IN  /\ \A p \in 1..Len(positions) :
                  /\ Len(positions[p].legs) = 1
                  /\ LET l == positions[p].legs[1]
                     IN  /\ \A i \in 1..Len(l.lines) :
                               /\ l.lines[i].symbol = l.symbol
                               /\ ret[PlaceIn(ret, l.lines[i])].symbol = l.symbol
                         /\ \A i, j \in 1..Len(l.lines) :
                               i < j => PlaceIn(ret, l.lines[i]) < PlaceIn(ret, l.lines[j])
            /\ \A p \in 1..Len(positions) :
                  Cardinality(PlacesOf(ret, positions[p])) =
                      Len(positions[p].legs[1].lines)
            /\ \A p, q \in 1..Len(positions) :
                  p # q => PlacesOf(ret, positions[p]) \cap PlacesOf(ret, positions[q]) = {}
            /\ UNION {PlacesOf(ret, positions[p]) : p \in 1..Len(positions)} =
                  1..Len(ret)

\* three records of one symbol made a closed Position of two lines and an
\* open Position of one
C25_Witness ==
    /\ scan.pc = "done"
    /\ Len(scan.ret) = 3
    /\ Len(scan.positions) = 2
    /\ PlacesOf(scan.ret, scan.positions[1]) = {1, 2}
    /\ PlacesOf(scan.ret, scan.positions[2]) = {3}
    /\ scan.positions[1].legs[1].symbol = scan.positions[2].legs[1].symbol

-----------------------------------------------------------------------------
(* The header rows of load_csv *)

\* none of the first 8 fields of the row is a text of digits only
NoNumericField(r) ==
    /\ r.cols >= 5 => r.quantity.form # "digits"
    /\ \A s \in {r.price, r.fees, r.amount} :
          ~(s.sign = "" /\ s.cur = "" /\ s.mag.form = "digits")

\* the row is among the first 2 rows of the file and has no numeric field
HeaderLike(f, n) == f[n].cols >= 2 /\ n <= 2 /\ NoNumericField(f[n])

\* the row has a date, a known action, 8 fields, a quantity that is empty or
\* a number and prices that are empty or "$" and a number
WellFormed(r) ==
    /\ r.cols >= 8
    /\ r.date.form = "date"
    /\ KnownAction(r)
    /\ r.quantity.form # "word"
    /\ \A s \in Prices(r) : ~MissingMarker(s) /\ ~Malformed(s)

\* the rows that are neither title, header nor footer rows
DataRows(f) ==
    {n \in 1..Len(f) : /\ f[n].cols >= 2
                       /\ ~HeaderLike(f, n)
                       /\ f[n].date # DateWord("Transactions Total")}

\* C24: a row of at least 2 fields is skipped as a header, giving no record
\* and no logged error, exactly when it is among the first 2 rows of the file
\* and has no numeric field among its first 8; every other row that is no
\* title or footer row is parsed, and gives its record or a logged error.
C24_HeaderRows ==
    csv.exc = "none" =>
        LET kept == SelectSeq([n \in 1..Len(file) |-> n],
                              LAMBDA n : n \in DataRows(file) /\ WellFormed(file[n]))
            log == LogRows(file, 1, <<>>)
        IN  /\ RecordsOf(csv.val, file, kept)
            /\ {log[k] : k \in 1..Len(log)} =
                  {n \in DataRows(file) : ~WellFormed(file[n])}

\* of two equal rows without a numeric field the one at line 2 was skipped
\* and the one at line 3 gave a record, as did line 1, which has a number
C24_Witness ==
    /\ csv.exc = "none"
    /\ Len(file) = 3
    /\ ~NoNumericField(file[1])
    /\ NoNumericField(file[2])
    /\ WellFormed(file[2])
    /\ file[3] = file[2]
    /\ Len(csv.val) = 2
    /\ LogRows(file, 1, <<>>) = <<>>

====
